---- MODULE Spec2Model ----
(***************************************************************************)
(* VessMorphoVis analysis kernels (vmv/analysis/kernels/samples.py,        *)
(* vmv/analysis/kernels/sections.py) and string writers                    *)
(* (vmv/file/writers/strings/strings.py).                                  *)
(*                                                                         *)
(* Number representation.  Python floats are carried as exact integers in  *)
(* fixed units, so that every comparison the code makes is decided         *)
(* exactly:                                                                *)
(*   radius, length        Unit-ths of a micron                            *)
(*   surface area          units of pi / Unit^2   (math.pi stays symbolic) *)
(*   volume                units of pi / (3 * Unit^3)                      *)
(* Only two operations are inexact, as they are on floats: the division    *)
(* of a mean and the square root, which both round down to the unit.       *)
(***************************************************************************)
EXTENDS Integers, Sequences, FiniteSets, TLC

VARIABLES
    sections_list,   \* the morphology: a sequence of sections, each [samples |-> <<sample,..>>]
    before,          \* sections_list as it was when the last call was made
    call,            \* the last call: [op |-> name, ...its arguments]
    result,          \* what the last call did: the value it returned or the exception it raised
    file,            \* the content of the file at file_path on disk, a sequence of characters
    file_handle,     \* [open |-> BOOLEAN, buffer |-> characters written but not yet flushed]
    writer,          \* the writer call in progress or last made: [op |-> name, arg |-> argument]
    todo             \* what the running writer has still to pass to file_handle.write

vars == <<sections_list, before, call, result, file, file_handle, writer, todo>>

analysis_vars == <<sections_list, before, call, result>>
writer_vars == <<file, file_handle, writer, todo>>

----------------------------------------------------------------------------
(* Bounds *)

\* a morphology has at most MaxSections sections and MaxTotalSamples samples in all
MaxSections == 2
MaxTotalSamples == 4
\* the resolution of the numbers: Unit steps to the micron
Unit == 2
\* the writers' inputs: characters of a string, entries of a list, decimals of a float
MaxStringLength == 2
MaxListLength == 2
FracDigits == 1

----------------------------------------------------------------------------
(* Arithmetic helpers *)

RECURSIVE FloorSqrt(_, _, _)
FloorSqrt(n, lo, hi) ==
    IF lo >= hi THEN lo
    ELSE LET mid == (lo + hi + 1) \div 2
         IN  IF mid <= n \div mid THEN FloorSqrt(n, mid, hi)
                                  ELSE FloorSqrt(n, lo, mid - 1)

\* math.sqrt on an integer radicand, rounded down
sqrt(n) == FloorSqrt(n, 0, n)

\* (p0 - p1).length, in Unit-ths
VectorLength(p0, p1) ==
    LET dx == p0[1] - p1[1]
        dy == p0[2] - p1[2]
        dz == p0[3] - p1[3]
    IN  sqrt((dx * dx + dy * dy + dz * dz) * Unit * Unit)

\* a / n of Python on floats, rounded down to the unit; n = 0 is the caller's error
TrueDivide(a, n) == a \div n

RECURSIVE sum(_)
sum(list) == IF list = <<>> THEN 0 ELSE list[1] + sum(Tail(list))

RECURSIVE min(_)
min(list) ==
    IF Len(list) = 1 THEN list[1]
    ELSE LET m == min(Tail(list)) IN IF list[1] <= m THEN list[1] ELSE m

RECURSIVE max(_)
max(list) ==
    IF Len(list) = 1 THEN list[1]
    ELSE LET m == max(Tail(list)) IN IF list[1] >= m THEN list[1] ELSE m

RECURSIVE Flatten(_)
Flatten(lists) == IF lists = <<>> THEN <<>> ELSE lists[1] \o Flatten(Tail(lists))

\* what a call hands back, by the type of the value, or the exception it raises
ReturnsNumber(v) == [ok |-> TRUE, number |-> v]
ReturnsBoolean(b) == [ok |-> TRUE, boolean |-> b]
ReturnsList(l) == [ok |-> TRUE, list |-> l]
ReturnsTuple(t) == [ok |-> TRUE, tuple |-> t]
ReturnsFrame(rows) == [ok |-> TRUE, rows |-> rows]
ReturnsNone == [ok |-> TRUE, none |-> TRUE]
Raises(e) == [ok |-> FALSE, error |-> e]

----------------------------------------------------------------------------
(* The morphologies the importer hands over *)

Sample(point, radius) == [point |-> point, radius |-> radius]
Section(samples) == [samples |-> samples]

\* The skeleton the sections run along: sample j of a section sits at PathPoint(j)
PathPoint(j) ==
    CASE j % 3 = 1 -> <<0, 0, 0>>
      [] j % 3 = 2 -> <<2, 0, 0>>
      [] OTHER     -> <<3, 2, 2>>

InputRadii == {0, Unit}
Epsilons == {Unit \div 2, Unit}

SeqsUpTo(S, n) == UNION {[1..k -> S] : k \in 0..n}

InputSections ==
    { Section([j \in 1..Len(radii) |-> Sample(PathPoint(j), radii[j])]) :
        radii \in SeqsUpTo(InputRadii, MaxTotalSamples) }

RECURSIVE TotalSamples(_)
TotalSamples(sections) ==
    IF sections = <<>> THEN 0 ELSE Len(sections[1].samples) + TotalSamples(Tail(sections))

InputMorphologies ==
    { sections \in SeqsUpTo(InputSections, MaxSections) : TotalSamples(sections) <= MaxTotalSamples }

----------------------------------------------------------------------------
(* vmv/analysis/kernels/samples.py *)

compute_number_of_samples_in_section(section) == Len(section.samples)

RECURSIVE compute_total_of_number_samples_from_sections_list(_)
compute_total_of_number_samples_from_sections_list(sections) ==
    IF sections = <<>> THEN 0
    ELSE compute_number_of_samples_in_section(sections[1])
         + compute_total_of_number_samples_from_sections_list(Tail(sections))

compute_number_of_samples_per_section_distribution(sections) ==
    [i \in 1..Len(sections) |-> Len(sections[i].samples)]

SectionRadii(section) == [j \in 1..Len(section.samples) |-> section.samples[j].radius]

compute_sample_radius_distribution(sections) ==
    Flatten([i \in 1..Len(sections) |-> SectionRadii(sections[i])])

compute_sample_radius_distribution_along_axes(sections) ==
    Flatten([i \in 1..Len(sections) |->
        [j \in 1..Len(sections[i].samples) |->
            LET i_sample == sections[i].samples[j]
            IN  <<i_sample.radius, i_sample.point[1], i_sample.point[2], i_sample.point[3]>>]])

\* the same with a radius equal to epsilon taken for a zero radius too
SmallerThanEpsilon_OrEqual(radius, epsilon) == radius <= epsilon

\* radius < epsilon, the test of the three zero-radius functions
SmallerThanEpsilon(radius, epsilon) == radius < epsilon

RECURSIVE analyze_samples_with_zero_radii(_, _)
analyze_samples_with_zero_radii(radii_list, epsilon) ==
    IF radii_list = <<>> THEN 0
    ELSE (IF SmallerThanEpsilon(radii_list[1], epsilon) THEN 1 ELSE 0)
         + analyze_samples_with_zero_radii(Tail(radii_list), epsilon)

\* a mean over the radii that are not zero only
MeanRadius_OfNonZero(section) ==
    LET radii == SelectSeq(SectionRadii(section), LAMBDA radius : radius # 0)
    IN  IF radii = <<>> THEN 0 ELSE TrueDivide(sum(radii), Len(radii))

\* lines 179-183: the mean of the radii of a section that has samples
MeanRadius(section) == TrueDivide(sum(SectionRadii(section)), Len(section.samples))

\* the same with the second loop stopping one sample short
CorrectSection_ButLast(section, epsilon) ==
    LET mean_radius == MeanRadius(section)
    IN  [section EXCEPT !.samples =
            [j \in 1..Len(section.samples) |->
                IF j < Len(section.samples)
                   /\ SmallerThanEpsilon(section.samples[j].radius, epsilon)
                THEN [section.samples[j] EXCEPT !.radius = mean_radius]
                ELSE section.samples[j]]]

\* lines 186-190: every radius below the threshold becomes the section's mean
CorrectSection(section, epsilon) ==
    LET mean_radius == MeanRadius(section)
    IN  [section EXCEPT !.samples =
            [j \in 1..Len(section.samples) |->
                IF SmallerThanEpsilon(section.samples[j].radius, epsilon)
                THEN [section.samples[j] EXCEPT !.radius = mean_radius]
                ELSE section.samples[j]]]

\* the same with a section without samples passed over instead of ending the pass
RECURSIVE CorrectFrom_Skipping(_, _, _)
CorrectFrom_Skipping(sections, i, epsilon) ==
    IF i > Len(sections) THEN sections
    ELSE IF Len(sections[i].samples) = 0 THEN CorrectFrom_Skipping(sections, i + 1, epsilon)
    ELSE CorrectFrom_Skipping([sections EXCEPT ![i] = CorrectSection(sections[i], epsilon)], i + 1, epsilon)

\* lines 173-177: the loop over the sections, left by the return at a section without samples
RECURSIVE CorrectFrom(_, _, _)
CorrectFrom(sections, i, epsilon) ==
    IF i > Len(sections) THEN sections
    ELSE IF Len(sections[i].samples) = 0 THEN sections
    ELSE CorrectFrom([sections EXCEPT ![i] = CorrectSection(sections[i], epsilon)], i + 1, epsilon)

correct_samples_with_zero_radii(sections, epsilon) == CorrectFrom(sections, 1, epsilon)

analyze_samples_radii(sections, epsilon) ==
    LET radii_list == compute_sample_radius_distribution(sections)
        zero_radii == SelectSeq(radii_list, LAMBDA radius : SmallerThanEpsilon(radius, epsilon))
    IN  IF radii_list = <<>>
        THEN Raises("ValueError")
        ELSE ReturnsTuple(<<min(radii_list), max(radii_list),
                       TrueDivide(sum(radii_list), Len(radii_list)), Len(zero_radii)>>)

----------------------------------------------------------------------------
(* vmv/analysis/kernels/sections.py *)

\* lines 41-51: the loop over the segments i, i + 1 of the section, from segment i on
RECURSIVE SectionLengthFrom(_, _)
SectionLengthFrom(section, i) ==
    IF i > Len(section.samples) - 1 THEN 0
    ELSE VectorLength(section.samples[i].point, section.samples[i + 1].point)
         + SectionLengthFrom(section, i + 1)

compute_section_length(section) == SectionLengthFrom(section, 1)

compute_section_average_radius(section) ==
    IF Len(section.samples) = 0
    THEN Raises("ZeroDivisionError")
    ELSE ReturnsNumber(TrueDivide(sum(SectionRadii(section)), Len(section.samples)))

\* the same with a section as long as its diameters sum taken for short too
ShorterThan_OrEqual(section_length, diameters_sum) == section_length <= diameters_sum

\* line 89: section_length < diameters_sum
ShorterThan(section_length, diameters_sum) == section_length < diameters_sum

is_short_section(section) ==
    IF Len(section.samples) > 1
    THEN LET diameters_sum ==
                 (section.samples[1].radius + section.samples[Len(section.samples)].radius) * 2
             section_length == compute_section_length(section)
         IN  IF ShorterThan(section_length, diameters_sum) THEN TRUE ELSE FALSE
    ELSE FALSE

RECURSIVE compute_number_of_short_sections(_)
compute_number_of_short_sections(sections) ==
    IF sections = <<>> THEN 0
    ELSE (IF is_short_section(sections[1]) THEN 1 ELSE 0)
         + compute_number_of_short_sections(Tail(sections))

RECURSIVE compute_number_of_sections_with_two_samples(_)
compute_number_of_sections_with_two_samples(sections) ==
    IF sections = <<>> THEN 0
    ELSE (IF Len(sections[1].samples) = 2 THEN 1 ELSE 0)
         + compute_number_of_sections_with_two_samples(Tail(sections))

compute_total_number_sections(sections) == Len(sections)

\* lines 199-205, in units of pi / Unit^2.  The code adds the number r_diff * r_diff
\* (a count of Unit^-2) and the number segment_length (a count of Unit^-1), so the
\* length is brought to Unit^-2 before the addition.
SegmentSurfaceArea(r0, r1, segment_length) ==
    LET r_sum == r0 + r1
        r_diff == r0 - r1
        segment_lateral_area == r_sum * sqrt((r_diff * r_diff) + segment_length * Unit)
    IN  segment_lateral_area + ((r0 * r0) + (r1 * r1))

RECURSIVE SectionSurfaceAreaFrom(_, _)
SectionSurfaceAreaFrom(section, i) ==
    IF i > Len(section.samples) - 1 THEN 0
    ELSE SegmentSurfaceArea(section.samples[i].radius, section.samples[i + 1].radius,
                            VectorLength(section.samples[i].point, section.samples[i + 1].point))
         + SectionSurfaceAreaFrom(section, i + 1)

compute_section_surface_area(section) ==
    IF Len(section.samples) < 2 THEN 0 ELSE SectionSurfaceAreaFrom(section, 1)

\* the same without the r0 * r1 term
SegmentVolume_NoCrossTerm(r0, r1, segment_length) == segment_length * (r0 * r0 + r1 * r1)

\* line 245, in units of pi / (3 * Unit^3)
SegmentVolume(r0, r1, segment_length) == segment_length * (r0 * r0 + r0 * r1 + r1 * r1)

RECURSIVE SectionVolumeFrom(_, _)
SectionVolumeFrom(section, i) ==
    IF i > Len(section.samples) - 1 THEN 0
    ELSE SegmentVolume(section.samples[i].radius, section.samples[i + 1].radius,
                       VectorLength(section.samples[i].point, section.samples[i + 1].point))
         + SectionVolumeFrom(section, i + 1)

compute_section_volume(section) ==
    IF Len(section.samples) < 2 THEN 0 ELSE SectionVolumeFrom(section, 1)

compute_sections_length_distributions(sections) ==
    [i \in 1..Len(sections) |-> compute_section_length(sections[i])]

compute_sections_average_radius_distributions(sections) ==
    IF \E i \in 1..Len(sections) : ~compute_section_average_radius(sections[i]).ok
    THEN Raises("ZeroDivisionError")
    ELSE ReturnsList([i \in 1..Len(sections) |-> compute_section_average_radius(sections[i]).number])

compute_sections_surface_area_distribution(sections) ==
    [i \in 1..Len(sections) |-> compute_section_surface_area(sections[i])]

\* the same with the sections of fewer than 2 samples left out
compute_sections_volume_distribution_skipping(sections) ==
    LET sized == SelectSeq(sections, LAMBDA section : Len(section.samples) >= 2)
    IN  [i \in 1..Len(sized) |-> compute_section_volume(sized[i])]

compute_sections_volume_distribution(sections) ==
    [i \in 1..Len(sections) |-> compute_section_volume(sections[i])]

\* the same with zeros returned for no section
analyze_sections_length_guarded(sections) ==
    LET sections_lengths == [i \in 1..Len(sections) |-> compute_section_length(sections[i])]
    IN  IF sections_lengths = <<>>
        THEN ReturnsTuple(<<0, 0, 0>>)
        ELSE ReturnsTuple(<<min(sections_lengths), max(sections_lengths),
                            TrueDivide(sum(sections_lengths), Len(sections_lengths))>>)

analyze_sections_length(sections) ==
    LET sections_lengths == [i \in 1..Len(sections) |-> compute_section_length(sections[i])]
    IN  IF sections_lengths = <<>>
        THEN Raises("ValueError")
        ELSE ReturnsTuple(<<min(sections_lengths), max(sections_lengths),
                       TrueDivide(sum(sections_lengths), Len(sections_lengths))>>)

----------------------------------------------------------------------------
(* The calls of the analysis kernels.  Each action is one whole call. *)

NoCall == [op |-> "none"]
IdleHandle == [open |-> FALSE, buffer |-> <<>>]

Init ==
    /\ sections_list \in InputMorphologies
    /\ before = sections_list
    /\ call = NoCall
    /\ result = ReturnsNone
    /\ file = <<>>
    /\ file_handle = IdleHandle
    /\ writer = NoCall
    /\ todo = <<>>

\* a call that reads the morphology after correcting its radii in place
Query_Correcting(c, r) ==
    /\ call' = c
    /\ result' = r
    /\ before' = sections_list
    /\ sections_list' = correct_samples_with_zero_radii(sections_list, Unit)
    /\ UNCHANGED writer_vars

\* a call that only reads the morphology
Query(c, r) ==
    /\ call' = c
    /\ result' = r
    /\ before' = sections_list
    /\ UNCHANGED sections_list
    /\ UNCHANGED writer_vars

call_compute_total_of_number_samples_from_sections_list ==
    Query([op |-> "compute_total_of_number_samples_from_sections_list"], ReturnsNumber(compute_total_of_number_samples_from_sections_list(sections_list)))

call_compute_number_of_samples_per_section_distribution ==
    Query([op |-> "compute_number_of_samples_per_section_distribution"], ReturnsList(compute_number_of_samples_per_section_distribution(sections_list)))

call_compute_sample_radius_distribution ==
    Query([op |-> "compute_sample_radius_distribution"], ReturnsList(compute_sample_radius_distribution(sections_list)))

call_compute_sample_radius_distribution_along_axes ==
    Query([op |-> "compute_sample_radius_distribution_along_axes"], ReturnsFrame(compute_sample_radius_distribution_along_axes(sections_list)))

call_compute_number_of_short_sections ==
    Query([op |-> "compute_number_of_short_sections"], ReturnsNumber(compute_number_of_short_sections(sections_list)))

call_compute_number_of_sections_with_two_samples ==
    Query([op |-> "compute_number_of_sections_with_two_samples"], ReturnsNumber(compute_number_of_sections_with_two_samples(sections_list)))

call_compute_total_number_sections ==
    Query([op |-> "compute_total_number_sections"], ReturnsNumber(compute_total_number_sections(sections_list)))

call_compute_sections_length_distributions ==
    Query([op |-> "compute_sections_length_distributions"], ReturnsList(compute_sections_length_distributions(sections_list)))

call_compute_sections_average_radius_distributions ==
    Query([op |-> "compute_sections_average_radius_distributions"], compute_sections_average_radius_distributions(sections_list))

call_compute_sections_surface_area_distribution ==
    Query([op |-> "compute_sections_surface_area_distribution"], ReturnsList(compute_sections_surface_area_distribution(sections_list)))

call_compute_sections_volume_distribution ==
    Query([op |-> "compute_sections_volume_distribution"], ReturnsList(compute_sections_volume_distribution(sections_list)))

call_analyze_sections_length ==
    Query([op |-> "analyze_sections_length"], analyze_sections_length(sections_list))

call_compute_number_of_samples_in_section(i) ==
    Query([op |-> "compute_number_of_samples_in_section", section |-> i], ReturnsNumber(compute_number_of_samples_in_section(sections_list[i])))

call_compute_section_length(i) ==
    Query([op |-> "compute_section_length", section |-> i], ReturnsNumber(compute_section_length(sections_list[i])))

call_compute_section_average_radius(i) ==
    Query([op |-> "compute_section_average_radius", section |-> i], compute_section_average_radius(sections_list[i]))

call_is_short_section(i) ==
    Query([op |-> "is_short_section", section |-> i], ReturnsBoolean(is_short_section(sections_list[i])))

call_compute_section_surface_area(i) ==
    Query([op |-> "compute_section_surface_area", section |-> i], ReturnsNumber(compute_section_surface_area(sections_list[i])))

call_compute_section_volume(i) ==
    Query([op |-> "compute_section_volume", section |-> i], ReturnsNumber(compute_section_volume(sections_list[i])))

call_analyze_samples_with_zero_radii(epsilon) ==
    LET radii_list == compute_sample_radius_distribution(sections_list)
    IN  Query([op |-> "analyze_samples_with_zero_radii", radii_list |-> radii_list, epsilon |-> epsilon],
              ReturnsNumber(analyze_samples_with_zero_radii(radii_list, epsilon)))

call_analyze_samples_radii(epsilon) ==
    Query([op |-> "analyze_samples_radii", epsilon |-> epsilon],
          analyze_samples_radii(sections_list, epsilon))

\* pass counts the passes made in a row with this epsilon, this one included (2 stands for 2 or more)
call_correct_samples_with_zero_radii(epsilon) ==
    /\ sections_list' = correct_samples_with_zero_radii(sections_list, epsilon)
    /\ before' = sections_list
    /\ call' = [op |-> "correct_samples_with_zero_radii", epsilon |-> epsilon,
                pass |-> IF call.op = "correct_samples_with_zero_radii" /\ call.epsilon = epsilon
                         THEN 2 ELSE 1]
    /\ result' = ReturnsNone
    /\ UNCHANGED writer_vars

Next ==
    \/ call_compute_total_of_number_samples_from_sections_list
    \/ call_compute_number_of_samples_per_section_distribution
    \/ call_compute_sample_radius_distribution
    \/ call_compute_sample_radius_distribution_along_axes
    \/ call_compute_number_of_short_sections
    \/ call_compute_number_of_sections_with_two_samples
    \/ call_compute_total_number_sections
    \/ call_compute_sections_length_distributions
    \/ call_compute_sections_average_radius_distributions
    \/ call_compute_sections_surface_area_distribution
    \/ call_compute_sections_volume_distribution
    \/ call_analyze_sections_length
    \/ \E i \in 1..Len(sections_list) : call_compute_number_of_samples_in_section(i)
    \/ \E i \in 1..Len(sections_list) : call_compute_section_length(i)
    \/ \E i \in 1..Len(sections_list) : call_compute_section_average_radius(i)
    \/ \E i \in 1..Len(sections_list) : call_is_short_section(i)
    \/ \E i \in 1..Len(sections_list) : call_compute_section_surface_area(i)
    \/ \E i \in 1..Len(sections_list) : call_compute_section_volume(i)
    \/ \E epsilon \in Epsilons : call_analyze_samples_with_zero_radii(epsilon)
    \/ \E epsilon \in Epsilons : call_analyze_samples_radii(epsilon)
    \/ \E epsilon \in Epsilons : call_correct_samples_with_zero_radii(epsilon)

Spec == Init /\ [][Next]_vars

----------------------------------------------------------------------------
(* vmv/file/writers/strings/strings.py *)

(* A text is a sequence of characters.  A scalar of a distribution is a    *)
(* Python int, [type |-> "int", value |-> n], or a Python float,           *)
(* [type |-> "float", value |-> v], v counting 10^-FracDigits.             *)

DecimalUnit == 10 ^ FracDigits

PyInt(n) == [type |-> "int", value |-> n]
PyFloat(v) == [type |-> "float", value |-> v]

Digits == <<"0", "1", "2", "3", "4", "5", "6", "7", "8", "9">>

RECURSIVE NatToString(_)
NatToString(n) ==
    IF n < 10 THEN <<Digits[n + 1]>>
    ELSE NatToString(n \div 10) \o <<Digits[(n % 10) + 1]>>

\* the count f of 10^-digits as exactly that many decimals
RECURSIVE FractionToString(_, _)
FractionToString(f, digits) ==
    IF digits = 0 THEN <<>>
    ELSE FractionToString(f \div 10, digits - 1) \o <<Digits[(f % 10) + 1]>>

\* repr of a float keeps the shortest fraction, and one decimal at least
RECURSIVE ShortestFraction(_)
ShortestFraction(decimals) ==
    IF Len(decimals) > 1 /\ decimals[Len(decimals)] = "0"
    THEN ShortestFraction(SubSeq(decimals, 1, Len(decimals) - 1))
    ELSE decimals

\* the same with a float written without its decimals
str_truncating(element) ==
    IF element.type = "int"
    THEN NatToString(element.value)
    ELSE NatToString(element.value \div DecimalUnit)

\* str(element), line 84
str(element) ==
    IF element.type = "int"
    THEN NatToString(element.value)
    ELSE NatToString(element.value \div DecimalUnit) \o <<".">>
         \o ShortestFraction(FractionToString(element.value % DecimalUnit, FracDigits))

InputStrings == SeqsUpTo({"a", "\n"}, MaxStringLength)
InputLines == {<<>>, <<"a">>, <<"a", "b">>}
InputStringLists == SeqsUpTo(InputLines, MaxListLength)
InputScalars == {PyInt(10), PyFloat(0), PyFloat(1), PyFloat(12 * DecimalUnit + DecimalUnit \div 2)}
InputDistributions == SeqsUpTo(InputScalars, MaxListLength)
OldContents == {<<>>, <<"o", "l", "d">>}

WriterInit ==
    /\ sections_list = <<>>
    /\ before = <<>>
    /\ call = NoCall
    /\ result = ReturnsNone
    /\ file \in OldContents
    /\ file_handle = IdleHandle
    /\ writer = NoCall
    /\ todo = <<>>

\* the same with the file opened for appending
OpenForWriting_Append(content) == content

\* open(file_path, 'w'): the file is created or truncated
OpenForWriting(content) == <<>>

\* lines 33, 56, 80: the call starts by opening the file; replaced is the length of
\* what the file held
StartWriter(op, arg, elements) ==
    /\ ~file_handle.open
    /\ writer' = [op |-> op, arg |-> arg, replaced |-> Len(file)]
    /\ file' = OpenForWriting(file)
    /\ file_handle' = [open |-> TRUE, buffer |-> <<>>]
    /\ todo' = elements
    /\ UNCHANGED analysis_vars

write_string_to_file(string) ==
    StartWriter("write_string_to_file", string, <<string>>)

write_list_string_to_file(list_strings) ==
    StartWriter("write_list_string_to_file", list_strings, list_strings)

write_distribution_to_file(distribution) ==
    StartWriter("write_distribution_to_file", distribution, distribution)

\* what the running writer passes to file_handle.write for one element: lines 36, 60, 84
Written(op, element) ==
    CASE op = "write_string_to_file" -> element
      [] op = "write_list_string_to_file" -> element \o <<"\n">>
      [] op = "write_distribution_to_file" -> str(element) \o <<"\n">>

\* file_handle.write: the text goes to the handle's buffer, of which the handle may
\* flush any leading part to the file at once and keeps the rest for later
file_handle_write ==
    /\ file_handle.open
    /\ todo # <<>>
    /\ LET buffer == file_handle.buffer \o Written(writer.op, Head(todo))
       IN  \E flushed \in 0..Len(buffer) :
               /\ file' = file \o SubSeq(buffer, 1, flushed)
               /\ file_handle' = [file_handle EXCEPT !.buffer = SubSeq(buffer, flushed + 1, Len(buffer))]
    /\ todo' = Tail(todo)
    /\ UNCHANGED writer
    /\ UNCHANGED analysis_vars

\* file_handle.close(): the buffer is flushed and the handle closed; lines 39, 63, 87
file_handle_close ==
    /\ file_handle.open
    /\ todo = <<>>
    /\ file' = file \o file_handle.buffer
    /\ file_handle' = IdleHandle
    /\ UNCHANGED <<writer, todo>>
    /\ UNCHANGED analysis_vars

WriterNext ==
    \/ \E string \in InputStrings : write_string_to_file(string)
    \/ \E list_strings \in InputStringLists : write_list_string_to_file(list_strings)
    \/ \E distribution \in InputDistributions : write_distribution_to_file(distribution)
    \/ file_handle_write
    \/ file_handle_close

WriterSpec == WriterInit /\ [][WriterNext]_vars

----------------------------------------------------------------------------
(* What the claims speak of, stated apart from the code's own operators *)

Radii(section) == [j \in 1..Len(section.samples) |-> section.samples[j].radius]

RECURSIVE Total(_)
Total(numbers) == IF numbers = <<>> THEN 0 ELSE numbers[Len(numbers)] + Total(SubSeq(numbers, 1, Len(numbers) - 1))

\* the arithmetic mean of a non-empty sequence against a threshold, exactly
MeanBelow(numbers, threshold) == Total(numbers) < threshold * Len(numbers)

\* the arithmetic mean of a non-empty sequence, to the unit
ArithmeticMean(numbers) == Total(numbers) \div Len(numbers)

\* the sections a correction pass gets to: those before the first one without samples
Processed(sections) ==
    {i \in 1..Len(sections) : \A k \in 1..i : Len(sections[k].samples) > 0}

Corrected == call.op = "correct_samples_with_zero_radii"

\* C1: after correct_samples_with_zero_radii returns, no sample of a section that has
\* samples has a radius < epsilon, unless the mean of that section's radii before the
\* call was itself < epsilon; for every sections_list, sections without samples included.
C1_NoRadiusBelowEpsilonLeft ==
    Corrected =>
        \A i \in 1..Len(sections_list) :
            \A j \in 1..Len(sections_list[i].samples) :
                sections_list[i].samples[j].radius < call.epsilon
                    => MeanBelow(Radii(before[i]), call.epsilon)

\* the distance between two points to the unit, by its defining property
EuclideanDistance(p, q) ==
    LET squared == ((p[1] - q[1]) * (p[1] - q[1]) + (p[2] - q[2]) * (p[2] - q[2])
                    + (p[3] - q[3]) * (p[3] - q[3])) * Unit * Unit
    IN  CHOOSE d \in 0..squared : d * d <= squared /\ (d + 1) * (d + 1) > squared

\* the square root to the unit, by its defining property
Root(n) == CHOOSE r \in 0..n : r * r <= n /\ (r + 1) * (r + 1) > n

Segments(section) == 1..(Len(section.samples) - 1)

RECURSIVE SumOver(_, _)
SumOver(f, indices) ==
    IF indices = {} THEN 0
    ELSE LET i == CHOOSE i \in indices : TRUE IN f[i] + SumOver(f, indices \ {i})

\* pi*(r0+r1)*sqrt((r0-r1)^2 + L^2) + pi*(r0^2 + r1^2) of segment i, in units of pi / Unit^2
TaperedCylinderArea(section, i) ==
    LET r0 == section.samples[i].radius
        r1 == section.samples[i + 1].radius
        L == EuclideanDistance(section.samples[i].point, section.samples[i + 1].point)
    IN  (r0 + r1) * Root((r0 - r1) * (r0 - r1) + L * L) + (r0 * r0 + r1 * r1)

\* C2: compute_section_surface_area of a section with at least 2 samples returns the sum
\* over the segments of pi*(r0+r1)*sqrt((r0-r1)^2 + L^2) + pi*(r0^2 + r1^2): under the
\* square root stands the squared radius difference plus the squared segment length.
C2_SurfaceAreaIsTaperedCylinderSum ==
    (call.op = "compute_section_surface_area" /\ Len(sections_list[call.section].samples) >= 2) =>
        LET section == sections_list[call.section]
        IN  /\ result.ok
            /\ result.number =
                 SumOver([i \in Segments(section) |-> TaperedCylinderArea(section, i)], Segments(section))

IsShort(section) ==
    /\ Len(section.samples) >= 2
    /\ compute_section_length(section)
         < 2 * (section.samples[1].radius + section.samples[Len(section.samples)].radius)

AllRadii(sections) == Flatten([i \in 1..Len(sections) |-> Radii(sections[i])])

\* C4: analyze_samples_with_zero_radii returns the number of elements strictly less than
\* epsilon; the fourth component of analyze_samples_radii is analyze_samples_with_zero_radii
\* of all the radii, and its first three are their minimum, maximum and arithmetic mean.
C4_ZeroRadiiCountAndSummary ==
    /\ call.op = "analyze_samples_with_zero_radii" =>
         /\ result.ok
         /\ result.number =
              Cardinality({k \in 1..Len(call.radii_list) : call.radii_list[k] < call.epsilon})
    /\ (call.op = "analyze_samples_radii" /\ AllRadii(sections_list) # <<>>) =>
         LET radii == AllRadii(sections_list)
         IN  /\ result.ok
             /\ result.tuple[4] = analyze_samples_with_zero_radii(radii, call.epsilon)
             /\ result.tuple[4] = Cardinality({k \in 1..Len(radii) : radii[k] < call.epsilon})
             /\ \E k \in 1..Len(radii) : radii[k] = result.tuple[1]
             /\ \A k \in 1..Len(radii) : result.tuple[1] <= radii[k]
             /\ \E k \in 1..Len(radii) : radii[k] = result.tuple[2]
             /\ \A k \in 1..Len(radii) : result.tuple[2] >= radii[k]
             /\ result.tuple[3] = ArithmeticMean(radii)

\* a summary over radii of which one is below epsilon and one is equal to it
C4_Witness ==
    /\ call.op = "analyze_samples_radii"
    /\ result.ok
    /\ result.tuple[4] >= 1
    /\ result.tuple[4] < Len(AllRadii(sections_list))
    /\ \E k \in 1..Len(AllRadii(sections_list)) : AllRadii(sections_list)[k] = call.epsilon

\* C5 as stated: whenever a second pass with the same epsilon changes nothing, the
\* mean of every non-empty section's radii after the first pass is >= epsilon.
C5_UnchangedOnlyIfMeansAtLeastEpsilon ==
    (Corrected /\ call.pass = 2 /\ sections_list = before) =>
        \A i \in 1..Len(sections_list) :
            Len(sections_list[i].samples) > 0
                => ~MeanBelow(Radii(sections_list[i]), call.epsilon)

\* C5 as amended: whenever a second pass with the same epsilon changes nothing, every
\* section before the first one without samples has, after the first pass, a mean
\* >= epsilon or every radius < epsilon equal to that mean.
C5_UnchangedOnlyIfSmallRadiiAreTheMean ==
    (Corrected /\ call.pass = 2 /\ sections_list = before) =>
        \A i \in Processed(sections_list) :
            \/ ~MeanBelow(Radii(sections_list[i]), call.epsilon)
            \/ \A j \in 1..Len(sections_list[i].samples) :
                   sections_list[i].samples[j].radius < call.epsilon
                       => sections_list[i].samples[j].radius = ArithmeticMean(Radii(sections_list[i]))

\* a second pass that changes nothing although a section it went over has a mean < epsilon
C5_Witness ==
    /\ Corrected
    /\ call.pass = 2
    /\ sections_list = before
    /\ \E i \in Processed(sections_list) : MeanBelow(Radii(sections_list[i]), call.epsilon)

\* (pi/3)*L*(r0^2 + r0*r1 + r1^2) of segment i, in units of pi / (3 * Unit^3)
FrustumVolume(section, i) ==
    LET r0 == section.samples[i].radius
        r1 == section.samples[i + 1].radius
        L == EuclideanDistance(section.samples[i].point, section.samples[i + 1].point)
    IN  L * (r0 * r0 + r0 * r1 + r1 * r1)

\* segment i taken as a section of 2 samples
SegmentAsSection(section, i) == Section(<<section.samples[i], section.samples[i + 1]>>)

\* C7: the summary functions fail on empty input and change no sample while doing so:
\* analyze_samples_radii when the sections hold no sample at all, analyze_sections_length
\* when sections_list is empty, compute_section_average_radius for a section without samples.
C7_SummariesFailOnEmptyInput ==
    /\ (call.op = "analyze_samples_radii" /\ AllRadii(before) = <<>>) => ~result.ok
    /\ (call.op = "analyze_sections_length" /\ before = <<>>) => ~result.ok
    /\ (call.op = "compute_section_average_radius" /\ before[call.section].samples = <<>>)
           => ~result.ok
    /\ ~result.ok => sections_list = before

\* analyze_samples_radii has failed on sections that are there but hold no sample
C7_Witness ==
    /\ call.op = "analyze_samples_radii"
    /\ Len(before) > 0
    /\ AllRadii(before) = <<>>
    /\ ~result.ok
    /\ sections_list = before

\* C8: compute_section_volume of a section with at least 2 samples returns the sum over
\* the segments of (pi/3)*L*(r0^2 + r0*r1 + r1^2); one segment with r0 = r1 = 1 and L = 2
\* gives 2*pi; and the volume is the sum of the volumes of the segments taken as sections.
C8_VolumeIsFrustumSum ==
    (call.op = "compute_section_volume" /\ Len(sections_list[call.section].samples) >= 2) =>
        LET section == sections_list[call.section]
        IN  /\ result.ok
            /\ result.number =
                 SumOver([i \in Segments(section) |-> FrustumVolume(section, i)], Segments(section))
            /\ result.number =
                 SumOver([i \in Segments(section) |->
                             compute_section_volume(SegmentAsSection(section, i))], Segments(section))
            /\ ( /\ Len(section.samples) = 2
                 /\ section.samples[1].radius = Unit
                 /\ section.samples[2].radius = Unit
                 /\ EuclideanDistance(section.samples[1].point, section.samples[2].point) = 2 * Unit )
               => result.number = 2 * (3 * Unit * Unit * Unit)

\* the volume of a section of several segments, the first of them with r0 = r1 = 1, L = 2
C8_Witness ==
    /\ call.op = "compute_section_volume"
    /\ LET section == sections_list[call.section]
       IN  /\ Len(section.samples) >= 3
           /\ section.samples[1].radius = Unit
           /\ section.samples[2].radius = Unit
           /\ EuclideanDistance(section.samples[1].point, section.samples[2].point) = 2 * Unit
           /\ result.number > 2 * (3 * Unit * Unit * Unit)

\* C9: for a section with 0 or 1 samples the length, the surface area and the volume are
\* 0 and no failure, and the three distributions hold one entry per section, in the
\* order of sections_list, which is 0 for such a section.
C9_FewSamplesContributeZero ==
    /\ ( /\ call.op \in {"compute_section_length", "compute_section_surface_area",
                         "compute_section_volume"}
         /\ Len(sections_list[call.section].samples) <= 1 )
       => (result.ok /\ result.number = 0)
    /\ call.op \in {"compute_sections_length_distributions",
                    "compute_sections_surface_area_distribution",
                    "compute_sections_volume_distribution"}
       => /\ result.ok
          /\ Len(result.list) = Len(sections_list)
          /\ \A i \in 1..Len(sections_list) :
               /\ Len(sections_list[i].samples) <= 1 => result.list[i] = 0
               /\ result.list[i] =
                    CASE call.op = "compute_sections_length_distributions"
                           -> compute_section_length(sections_list[i])
                      [] call.op = "compute_sections_surface_area_distribution"
                           -> compute_section_surface_area(sections_list[i])
                      [] call.op = "compute_sections_volume_distribution"
                           -> compute_section_volume(sections_list[i])

\* a volume distribution with a 0 for a section of one sample before the entry of a
\* section with a volume
C9_Witness ==
    /\ call.op = "compute_sections_volume_distribution"
    /\ Len(sections_list) = 2
    /\ Len(sections_list[1].samples) = 1
    /\ result.list[1] = 0
    /\ result.list[2] > 0

----------------------------------------------------------------------------
(* Reading a written file back *)

FirstNewline(text) ==
    IF \E k \in 1..Len(text) : text[k] = "\n"
    THEN CHOOSE k \in 1..Len(text) : text[k] = "\n" /\ \A m \in 1..(k - 1) : text[m] # "\n"
    ELSE 0

\* the lines of a text as a reader gets them, each with its terminator if it has one
RECURSIVE ReadLines(_)
ReadLines(text) ==
    IF text = <<>> THEN <<>>
    ELSE IF FirstNewline(text) = 0 THEN <<text>>
    ELSE <<SubSeq(text, 1, FirstNewline(text))>>
         \o ReadLines(SubSeq(text, FirstNewline(text) + 1, Len(text)))

IsDigit(c) == \E d \in 1..10 : Digits[d] = c
DigitValue(c) == (CHOOSE d \in 1..10 : Digits[d] = c) - 1

RECURSIVE ParseNat(_)
ParseNat(chars) ==
    IF chars = <<>> THEN 0
    ELSE ParseNat(SubSeq(chars, 1, Len(chars) - 1)) * 10 + DigitValue(chars[Len(chars)])

\* the number a line reads as, counting 10^-FracDigits; -1 if it is no number
ParseScalar(line) ==
    LET text == IF line # <<>> /\ line[Len(line)] = "\n" THEN SubSeq(line, 1, Len(line) - 1) ELSE line
        dot == IF \E k \in 1..Len(text) : text[k] = "."
               THEN CHOOSE k \in 1..Len(text) : text[k] = "." ELSE 0
        whole == IF dot = 0 THEN text ELSE SubSeq(text, 1, dot - 1)
        decimals == IF dot = 0 THEN <<>> ELSE SubSeq(text, dot + 1, Len(text))
    IN  IF \/ whole = <<>>
           \/ \E k \in 1..Len(whole) : ~IsDigit(whole[k])
           \/ \E k \in 1..Len(decimals) : ~IsDigit(decimals[k])
           \/ Len(decimals) > FracDigits
        THEN -1
        ELSE ParseNat(whole) * DecimalUnit + ParseNat(decimals) * 10 ^ (FracDigits - Len(decimals))

\* the number a scalar is, counting 10^-FracDigits
NumericValue(element) ==
    IF element.type = "int" THEN element.value * DecimalUnit ELSE element.value

Completed(op) == writer.op = op /\ ~file_handle.open

\* C6: write_distribution_to_file, then reading the file back line by line and parsing
\* each line as a scalar, gives the input sequence back: one line per element, in input
\* order, each the stringified element and a line terminator; nothing for no element.
C6_DistributionRoundTrip ==
    Completed("write_distribution_to_file") =>
        LET lines == ReadLines(file)
        IN  /\ Len(lines) = Len(writer.arg)
            /\ \A i \in 1..Len(lines) :
                 /\ lines[i] = str(writer.arg[i]) \o <<"\n">>
                 /\ ParseScalar(lines[i]) = NumericValue(writer.arg[i])
            /\ writer.arg = <<>> => file = <<>>

\* a written distribution of an int and, after it, a float that has decimals
C6_Witness ==
    /\ Completed("write_distribution_to_file")
    /\ Len(writer.arg) = 2
    /\ writer.arg[1].type = "int"
    /\ writer.arg[2].type = "float"
    /\ writer.arg[2].value % DecimalUnit # 0
    /\ Len(ReadLines(file)) = 2

\* the content a writer call is to leave in the file
NewContent(op, arg) ==
    CASE op = "write_string_to_file" -> arg
      [] op = "write_list_string_to_file" -> Flatten([i \in 1..Len(arg) |-> arg[i] \o <<"\n">>])
      [] op = "write_distribution_to_file" -> Flatten([i \in 1..Len(arg) |-> str(arg[i]) \o <<"\n">>])

IsPrefix(text, whole) == Len(text) <= Len(whole) /\ text = SubSeq(whole, 1, Len(text))

\* C10: each of the three writers truncates, then writes: once a call has completed the
\* file holds exactly the new content whatever it held before, and in every state of the
\* call before that the file holds a prefix of the new content.
C10_TruncateThenWrite ==
    writer.op # "none" =>
        IF file_handle.open
        THEN IsPrefix(file, NewContent(writer.op, writer.arg))
        ELSE file = NewContent(writer.op, writer.arg)

\* a call part-way: the file holds some but not all of the new content, which is
\* shorter than what the file held before
C10_Witness ==
    /\ writer.op # "none"
    /\ file_handle.open
    /\ file # <<>>
    /\ Len(file) < Len(NewContent(writer.op, writer.arg))
    /\ Len(NewContent(writer.op, writer.arg)) < writer.replaced

----------------------------------------------------------------------------
(* The frame of the analysis kernels *)

\* every operation of the two kernel modules but the correction
IsQuery(c) == c.op \notin {"none", "correct_samples_with_zero_radii"}

\* C11: the morphology is read-only for every operation but
\* correct_samples_with_zero_radii: a call of a counting, distribution, length, area,
\* volume, short-section or summary function leaves every sample's radius and point,
\* every section's samples and the section list as they were, and the same query
\* made again returns the same result.
C11_QueriesLeaveTheMorphologyUnchanged ==
    [][ /\ IsQuery(call') => sections_list' = sections_list
        /\ (IsQuery(call) /\ call' = call) => result' = result ]_vars

\* a query has returned a value on a morphology that a correction would have changed
C11_Witness ==
    /\ IsQuery(call)
    /\ result.ok
    /\ sections_list = before
    /\ \E epsilon \in Epsilons : correct_samples_with_zero_radii(sections_list, epsilon) # sections_list

\* the first section without samples, where there is one
HasEmptySection(sections) == \E k \in 1..Len(sections) : Len(sections[k].samples) = 0

FirstEmptySection(sections) ==
    CHOOSE k \in 1..Len(sections) :
        /\ Len(sections[k].samples) = 0
        /\ \A h \in 1..(k - 1) : Len(sections[h].samples) > 0

\* a section corrected as usual: each radius < epsilon replaced by the arithmetic mean
\* of the section's radii, everything else kept
UsualCorrection(section, epsilon) ==
    [section EXCEPT !.samples =
        [j \in 1..Len(section.samples) |->
            IF section.samples[j].radius < epsilon
            THEN [section.samples[j] EXCEPT !.radius = ArithmeticMean(Radii(section))]
            ELSE section.samples[j]]]

\* C12: when sections_list contains a section without samples,
\* correct_samples_with_zero_radii ends the whole pass at the first such section: every
\* section before it is corrected as usual, and every section at or after it keeps all
\* its radii, even one with samples of radius < epsilon and a mean >= epsilon.
C12_PassEndsAtFirstEmptySection ==
    (Corrected /\ HasEmptySection(before)) =>
        LET first == FirstEmptySection(before)
        IN  /\ Len(sections_list) = Len(before)
            /\ \A i \in 1..(first - 1) :
                   sections_list[i] = UsualCorrection(before[i], call.epsilon)
            /\ \A i \in first..Len(before) : Radii(sections_list[i]) = Radii(before[i])

\* a pass that ended at a section without samples and so left alone a later section
\* that has a radius < epsilon and a mean >= epsilon
C12_Witness ==
    /\ Corrected
    /\ HasEmptySection(before)
    /\ \E i \in (FirstEmptySection(before) + 1)..Len(before) :
           /\ \E j \in 1..Len(before[i].samples) : before[i].samples[j].radius < call.epsilon
           /\ ~MeanBelow(Radii(before[i]), call.epsilon)
           /\ sections_list[i] = before[i]

\* C13: correct_samples_with_zero_radii corrects each section it gets to on its own and
\* from the values it had before the pass: every sample whose radius was < epsilon gets
\* the arithmetic mean of all that section's radii as they were before any overwrite,
\* while every sample whose radius was >= epsilon, every sample point, and the number
\* and order of samples and sections stay as they were.
C13_CorrectedFromValuesBeforeThePass ==
    Corrected =>
        /\ Len(sections_list) = Len(before)
        /\ \A i \in 1..Len(before) :
               /\ Len(sections_list[i].samples) = Len(before[i].samples)
               /\ \A j \in 1..Len(before[i].samples) :
                      /\ sections_list[i].samples[j].point = before[i].samples[j].point
                      /\ before[i].samples[j].radius >= call.epsilon
                             => sections_list[i].samples[j].radius = before[i].samples[j].radius
                      /\ (i \in Processed(before) /\ before[i].samples[j].radius < call.epsilon)
                             => sections_list[i].samples[j].radius = ArithmeticMean(Radii(before[i]))

\* a pass that overwrote two samples of one section with a mean that neither had,
\* beside a sample of that section it kept
C13_Witness ==
    /\ Corrected
    /\ \E i \in Processed(before) :
           /\ \E j, k \in 1..Len(before[i].samples) :
                  /\ j < k
                  /\ before[i].samples[j].radius < call.epsilon
                  /\ before[i].samples[k].radius < call.epsilon
                  /\ sections_list[i].samples[j].radius # before[i].samples[j].radius
                  /\ sections_list[i].samples[k].radius = sections_list[i].samples[j].radius
           /\ \E j \in 1..Len(before[i].samples) : before[i].samples[j].radius >= call.epsilon

====
